---- MODULE Spec2Model ----
(***************************************************************************)
(* Model of vectorcode.subcommands.query: the query() pipeline driver,     *)
(* build_query_results() and get_query_result_files().                     *)
(*                                                                         *)
(* The vector index, the embedding function, the reranker and the file     *)
(* system are external: their results are chosen nondeterministically      *)
(* among the outcomes the code handles or lets propagate.  `calls` records *)
(* every external call in program order, `logs` every logger call and      *)
(* `stdout` every print.                                                   *)
(***************************************************************************)
EXTENDS Integers, Sequences, FiniteSets, TLC

VARIABLES pc, include, include0, n_result, query_multiplier, pipe,
          query_exclude, total, ranged, client, calls, logs, stdout,
          filter, num_query, where, n_results, ids, idx,
          structured_result, ret, raised

vars == <<pc, include, include0, n_result, query_multiplier, pipe,
          query_exclude, total, ranged, client, calls, logs, stdout,
          filter, num_query, where, n_results, ids, idx,
          structured_result, ret, raised>>

\* ---- bounds ----
MaxCount == 2
MaxNResult == 2
MaxMultiplier == 2

\* ---- helpers ----
Range(s) == {s[i] : i \in 1..Len(s)}
Has(s, x) == x \in Range(s)
Min(a, b) == IF a <= b THEN a ELSE b
Count(s, x) == Cardinality({i \in 1..Len(s) : s[i] = x})

\* ---- the world outside the pipeline ----
\* Identifiers the reranker may hand back.
Ids == {"a.py", "gone.py", "c_ok", "c_partial", "c_stale"}

\* os.path.isfile
IsFile(p) == p = "a.py"

\* collection.get(identifier, include=[metadatas, documents])["metadatas"]:
\* empty when the id is not a stored chunk, else one metadata mapping.
Meta(id) ==
    CASE id = "c_ok"      -> [present |-> TRUE, path |-> "a.py", hasStart |-> TRUE, hasEnd |-> TRUE]
      [] id = "c_partial" -> [present |-> TRUE, path |-> "a.py", hasStart |-> FALSE, hasEnd |-> FALSE]
      [] id = "c_stale"   -> [present |-> TRUE, path |-> "gone.py", hasStart |-> TRUE, hasEnd |-> TRUE]
      [] OTHER            -> [present |-> FALSE, path |-> "", hasStart |-> FALSE, hasEnd |-> FALSE]

\* Values of configs.include (a list of QueryInclude members).
IncludeModes == { <<"path">>, <<"document">>, <<"path", "document">>,
                  <<"chunk">>, <<"path", "chunk">>, <<"chunk", "document">>,
                  <<"path", "document", "chunk">> }

\* Sequences over S of length at most n.
RECURSIVE SeqsUpTo(_, _)
SeqsUpTo(S, n) ==
    IF n = 0 THEN { <<>> }
    ELSE LET shorter == SeqsUpTo(S, n - 1)
         IN shorter \cup { Append(s, x) : s \in {t \in shorter : Len(t) = n - 1}, x \in S }

NoReturn == -1
NoFilter == [conj |-> "none", clauses |-> <<>>]
Log(level, msg, at) == [level |-> level, msg |-> msg, at |-> at]
Line(type, val) == [type |-> type, val |-> val]

\* leaving the `async with ClientManager().get_client(configs)` block
Release(c) == Append(c, "release")

\* ---- get_query_result_files: filter and candidate count ----
\* A filter clause {key: {op: val}}; op = "" stands for the bare mapping
\* {key: val}.
Clause(key, op, val) == [key |-> key, op |-> op, val |-> val]

BuildFilter(inc, excl) ==
    LET base == IF excl # {}
                THEN [conj |-> "single", clauses |-> <<Clause("path", "$nin", excl)>>]
                ELSE NoFilter
    IN IF Has(inc, "chunk")
       THEN IF base.conj # "none"
            THEN [conj |-> "$and",
                  clauses |-> <<base.clauses[1], Clause("$gte", "", {0})>>]
            ELSE [conj |-> "single", clauses |-> <<Clause("start", "$gte", {0})>>]
       ELSE base

\* variant: the oversampled count is not capped by the collection size
NumQuery_NoMin(inc, n, m, T) ==
    IF Has(inc, "chunk") THEN n
    ELSE IF m > 0 THEN n * m ELSE T

NumQuery(inc, n, m, T) ==
    IF Has(inc, "chunk") THEN n
    ELSE IF m > 0 THEN Min(n * m, T) ELSE T

\* the clause every chunk-mode filter is documented to carry
StartClause == Clause("start", "$gte", {0})
WellFormed(f) == \A i \in 1..Len(f.clauses) : f.clauses[i].op # ""

Init ==
    /\ pc = "ValidateMode"
    /\ include0 \in IncludeModes
    /\ include = include0
    /\ n_result \in 1..MaxNResult
    /\ query_multiplier \in -1..MaxMultiplier
    /\ pipe \in BOOLEAN
    /\ query_exclude \in SUBSET {"a.py", "gone.py"}
    /\ total \in 0..MaxCount
    /\ ranged \in 0..total
    /\ client = "none"
    /\ calls = <<>>
    /\ logs = <<>>
    /\ stdout = <<>>
    /\ filter = NoFilter
    /\ num_query = 0
    /\ where = NoFilter
    /\ n_results = 0
    /\ ids = <<>>
    /\ idx = 1
    /\ structured_result = <<>>
    /\ ret = NoReturn
    /\ raised = "none"

\* variant: the mode combination is only rejected once the client is held
ValidateMode_Late ==
    /\ pc = "ValidateMode"
    /\ IF Has(include, "chunk") /\ Has(include, "document")
       THEN /\ logs' = Append(logs, Log("error", "mode", 0))
            /\ calls' = Release(Append(calls, "get_client"))
            /\ client' = "closed"
            /\ ret' = 1
            /\ pc' = "done"
       ELSE /\ client' = "open"
            /\ calls' = Append(calls, "get_client")
            /\ pc' = "GetCollection"
            /\ UNCHANGED <<logs, ret>>
    /\ UNCHANGED <<include, include0, n_result, query_multiplier, pipe,
                   query_exclude, total, ranged, stdout, filter, num_query,
                   where, n_results, ids, idx, structured_result, raised>>

\* query(): lines 156-164
ValidateMode ==
    /\ pc = "ValidateMode"
    /\ IF Has(include, "chunk") /\ Has(include, "document")
       THEN /\ logs' = Append(logs, Log("error", "mode", 0))
            /\ ret' = 1
            /\ pc' = "done"
            /\ UNCHANGED <<client, calls>>
       ELSE /\ client' = "open"
            /\ calls' = Append(calls, "get_client")
            /\ pc' = "GetCollection"
            /\ UNCHANGED <<logs, ret>>
    /\ UNCHANGED <<include, include0, n_result, query_multiplier, pipe,
                   query_exclude, total, ranged, stdout, filter, num_query,
                   where, n_results, ids, idx, structured_result, raised>>

\* variant: the early failure returns leave the client open
GetCollection_Leak ==
    /\ pc = "GetCollection"
    /\ \E outcome \in {"ok", "ef_mismatch", "ValueError", "InvalidCollectionException",
                       "InvalidDimensionException", "IndexError"} :
         IF outcome = "ok"
         THEN /\ calls' = calls \o <<"get_collection", "verify_ef">>
              /\ pc' = "EnsureFallback"
              /\ UNCHANGED <<logs, ret>>
         ELSE /\ calls' = calls \o (IF outcome = "ef_mismatch"
                                    THEN <<"get_collection", "verify_ef">>
                                    ELSE <<"get_collection">>)
              /\ logs' = IF outcome = "ef_mismatch" THEN logs
                         ELSE Append(logs, Log("error", outcome, 0))
              /\ ret' = 1
              /\ pc' = "done"
    /\ UNCHANGED <<include, include0, n_result, query_multiplier, pipe,
                   query_exclude, total, ranged, stdout, filter, num_query,
                   where, n_results, ids, idx, structured_result, raised, client>>

\* query(): lines 165-183
GetCollection ==
    /\ pc = "GetCollection"
    /\ \E outcome \in {"ok", "ef_mismatch", "ValueError", "InvalidCollectionException",
                       "InvalidDimensionException", "IndexError"} :
         IF outcome = "ok"
         THEN /\ calls' = calls \o <<"get_collection", "verify_ef">>
              /\ pc' = "EnsureFallback"
              /\ UNCHANGED <<logs, ret, client>>
         ELSE /\ calls' = Release(calls \o (IF outcome = "ef_mismatch"
                                            THEN <<"get_collection", "verify_ef">>
                                            ELSE <<"get_collection">>))
              /\ logs' = IF outcome = "ef_mismatch" THEN logs
                         ELSE Append(logs, Log("error", outcome, 0))
              /\ client' = "closed"
              /\ ret' = 1
              /\ pc' = "done"
    /\ UNCHANGED <<include, include0, n_result, query_multiplier, pipe,
                   query_exclude, total, ranged, stdout, filter, num_query,
                   where, n_results, ids, idx, structured_result, raised>>

\* variant: the probe warns but leaves the requested mode in place
EnsureFallback_NoDowngrade ==
    /\ pc = "EnsureFallback"
    /\ stdout' = IF pipe THEN stdout ELSE Append(stdout, Line("banner", <<>>))
    /\ IF Has(include, "chunk")
       THEN /\ calls' = Append(calls, "probe_get")
            /\ logs' = IF ranged = 0
                       THEN Append(logs, Log("warning", "fallback", 0)) ELSE logs
       ELSE UNCHANGED <<calls, logs>>
    /\ pc' = "PrepareQuery"
    /\ UNCHANGED <<include, include0, n_result, query_multiplier, pipe,
                   query_exclude, total, ranged, client, filter, num_query,
                   where, n_results, ids, idx, structured_result, ret, raised>>

\* query(): lines 185-196
EnsureFallback ==
    /\ pc = "EnsureFallback"
    /\ stdout' = IF pipe THEN stdout ELSE Append(stdout, Line("banner", <<>>))
    /\ IF Has(include, "chunk")
       THEN /\ calls' = Append(calls, "probe_get")
            /\ IF ranged = 0
               THEN /\ logs' = Append(logs, Log("warning", "fallback", 0))
                    /\ include' = <<"path", "document">>
               ELSE UNCHANGED <<logs, include>>
       ELSE UNCHANGED <<calls, logs, include>>
    /\ pc' = "PrepareQuery"
    /\ UNCHANGED <<include0, n_result, query_multiplier, pipe,
                   query_exclude, total, ranged, client, filter, num_query,
                   where, n_results, ids, idx, structured_result, ret, raised>>

\* variant: an empty collection is queried like any other
PrepareQuery_NoEmptyCheck ==
    /\ pc = "PrepareQuery"
    /\ query_exclude' = {p \in query_exclude : IsFile(p)}
    /\ calls' = Append(calls, "count")
    /\ pc' = "PlanRetrieval"
    /\ UNCHANGED <<include, include0, n_result, query_multiplier, pipe,
                   total, ranged, client, stdout, filter, num_query, logs, ids, idx,
                   where, n_results, structured_result, ret, raised>>

\* get_query_result_files(): lines 36-49
PrepareQuery ==
    /\ pc = "PrepareQuery"
    /\ query_exclude' = {p \in query_exclude : IsFile(p)}
    /\ calls' = Append(calls, "count")
    /\ IF total = 0
       THEN /\ logs' = Append(logs, Log("error", "empty", 0))
            /\ ids' = <<>>
            /\ idx' = 1
            /\ pc' = "Reconcile"
       ELSE /\ pc' = "PlanRetrieval"
            /\ UNCHANGED <<logs, ids, idx>>
    /\ UNCHANGED <<include, include0, n_result, query_multiplier, pipe,
                   total, ranged, client, stdout, filter, num_query,
                   where, n_results, structured_result, ret, raised>>

\* get_query_result_files(): lines 51-69
PlanRetrieval ==
    /\ pc = "PlanRetrieval"
    /\ filter' = BuildFilter(include, query_exclude)
    /\ num_query' = NumQuery(include, n_result, query_multiplier, total)
    /\ calls' = calls \o (IF Has(include, "chunk") THEN <<>>
                          ELSE IF query_multiplier > 0 THEN <<"count", "count">>
                          ELSE <<"count">>)
    /\ logs' = LET l1 == IF query_exclude # {}
                         THEN Append(logs, Log("info", "excluding", 0)) ELSE logs
               IN IF ~Has(include, "chunk") /\ query_multiplier > 0
                  THEN Append(l1, Log("info", "querying", 0)) ELSE l1
    /\ pc' = "IndexQuery"
    /\ UNCHANGED <<include, include0, n_result, query_multiplier, pipe,
                   query_exclude, total, ranged, client, stdout,
                   where, n_results, ids, idx, structured_result, ret, raised>>

\* get_query_result_files(): lines 70-82.  The index either answers, raises
\* the IndexError the code turns into "no results", or, handed a clause
\* without an operator mapping, may reject the filter with an error that
\* nothing catches.
IndexQuery ==
    /\ pc = "IndexQuery"
    /\ where' = filter
    /\ n_results' = num_query
    /\ \E outcome \in {"ok", "IndexError"} \cup
                      (IF WellFormed(filter) THEN {} ELSE {"ValueError"}) :
         CASE outcome = "ok" ->
                /\ calls' = calls \o <<"embed", "query">>
                /\ pc' = "Rerank"
                /\ UNCHANGED <<ids, idx, raised, client>>
           [] outcome = "IndexError" ->
                /\ calls' = calls \o <<"embed", "query">>
                /\ ids' = <<>>
                /\ idx' = 1
                /\ pc' = "Reconcile"
                /\ UNCHANGED <<raised, client>>
           [] OTHER ->
                /\ calls' = Release(calls \o <<"embed", "query">>)
                /\ raised' = outcome
                /\ client' = "closed"
                /\ pc' = "done"
                /\ UNCHANGED <<ids, idx>>
    /\ UNCHANGED <<include, include0, n_result, query_multiplier, pipe,
                   query_exclude, total, ranged, logs, stdout, filter,
                   num_query, structured_result, ret>>

\* variant: a reranker failure still prints what has been collected
Rerank_PartialOutput ==
    /\ pc = "Rerank"
    /\ \/ \E r \in SeqsUpTo(Ids, Min(n_result, total)) :
            /\ ids' = r
            /\ idx' = 1
            /\ calls' = Append(calls, "rerank")
            /\ pc' = "Reconcile"
            /\ UNCHANGED <<logs, ret, client, stdout>>
       \/ /\ calls' = Release(Append(calls, "rerank"))
          /\ logs' = Append(logs, Log("error", "RerankerError", 0))
          /\ stdout' = Append(stdout, Line("json", structured_result))
          /\ client' = "closed"
          /\ ret' = 1
          /\ pc' = "done"
          /\ UNCHANGED <<ids, idx>>
    /\ UNCHANGED <<include, include0, n_result, query_multiplier, pipe,
                   query_exclude, total, ranged, filter, num_query,
                   where, n_results, structured_result, raised>>

\* get_query_result_files(): lines 84-85, and query(): lines 199-202
Rerank ==
    /\ pc = "Rerank"
    /\ \/ \E r \in SeqsUpTo(Ids, Min(n_result, total)) :
            /\ ids' = r
            /\ idx' = 1
            /\ calls' = Append(calls, "rerank")
            /\ pc' = "Reconcile"
            /\ UNCHANGED <<logs, ret, client>>
       \/ /\ calls' = Release(Append(calls, "rerank"))
          /\ logs' = Append(logs, Log("error", "RerankerError", 0))
          /\ client' = "closed"
          /\ ret' = 1
          /\ pc' = "done"
          /\ UNCHANGED <<ids, idx>>
    /\ UNCHANGED <<include, include0, n_result, query_multiplier, pipe,
                   query_exclude, total, ranged, stdout, filter, num_query,
                   where, n_results, structured_result, raised>>

\* A StructuredResult: `at` is the position of its identifier in the
\* reranker's list, `keys` the keys of the mapping, `clean` whether
\* cleanup_path has been applied to its path.
Result(at, id, keys) == [at |-> at, id |-> id, keys |-> keys, clean |-> FALSE]

\* keys of full_result in the existing-file branch, lines 98-101
FileKeys == {"path", "document"}

\* keys of full_result in the chunk branch, lines 118-137
ChunkKeys(inc) ==
    {"chunk", "chunk_id", "start_line", "end_line"}
        \cup (IF Has(inc, "path") THEN {"path"} ELSE {})

\* an exception leaving build_query_results and the `async with` block
Propagate(e) ==
    /\ raised' = e
    /\ client' = "closed"
    /\ pc' = "done"
    /\ UNCHANGED <<idx, structured_result, logs>>

\* build_query_results(): one iteration of the loop, lines 92-148
Reconcile ==
    /\ pc = "Reconcile"
    /\ idx <= Len(ids)
    /\ LET identifier == ids[idx]
           meta == Meta(identifier)
       IN IF IsFile(identifier)
          THEN IF Range(include) \subseteq FileKeys
               THEN /\ calls' = Append(calls, "read")
                    /\ structured_result' =
                         Append(structured_result, Result(idx, identifier, Range(include)))
                    /\ idx' = idx + 1
                    /\ UNCHANGED <<logs, raised, client, pc>>
               ELSE /\ calls' = Release(Append(calls, "read"))
                    /\ Propagate("KeyError")
          ELSE IF Has(include, "chunk")
          THEN IF meta.present
               THEN IF meta.hasStart /\ meta.hasEnd
                    THEN IF IsFile(meta.path)
                         THEN /\ calls' = calls \o <<"get", "read">>
                              /\ structured_result' =
                                   Append(structured_result,
                                          Result(idx, identifier, ChunkKeys(include)))
                              /\ idx' = idx + 1
                              /\ UNCHANGED <<logs, raised, client, pc>>
                         ELSE /\ calls' = Release(Append(calls, "get"))
                              /\ Propagate("FileNotFoundError")
                    ELSE /\ calls' = Append(calls, "get")
                         /\ idx' = idx + 1
                         /\ UNCHANGED <<structured_result, logs, raised, client, pc>>
               ELSE /\ calls' = Append(calls, "get")
                    /\ logs' = Append(logs, Log("error", "no_metadata", idx))
                    /\ idx' = idx + 1
                    /\ UNCHANGED <<structured_result, raised, client, pc>>
          ELSE /\ logs' = Append(logs, Log("warning", "stale", idx))
               /\ idx' = idx + 1
               /\ UNCHANGED <<calls, structured_result, raised, client, pc>>
    /\ UNCHANGED <<include, include0, n_result, query_multiplier, pipe,
                   query_exclude, total, ranged, stdout, filter, num_query,
                   where, n_results, ids, ret>>

\* cleanup_path over the finished list, lines 149-151
Cleanup(rs) ==
    [i \in 1..Len(rs) |->
        IF "path" \in rs[i].keys THEN [rs[i] EXCEPT !.clean = TRUE] ELSE rs[i]]

\* the prints of lines 204-211
RECURSIVE Blocks(_, _)
Blocks(rs, i) ==
    IF i > Len(rs) THEN <<>>
    ELSE <<Line("block", <<rs[i]>>)>>
         \o (IF i # Len(rs) THEN <<Line("blank", <<>>)>> ELSE <<>>)
         \o Blocks(rs, i + 1)

Render(rs, asJson) == IF asJson THEN <<Line("json", rs)>> ELSE Blocks(rs, 1)

\* build_query_results(): lines 149-152, and query(): lines 204-212
Format ==
    /\ pc = "Reconcile"
    /\ idx > Len(ids)
    /\ structured_result' = Cleanup(structured_result)
    /\ stdout' = stdout \o Render(structured_result', pipe)
    /\ calls' = Release(calls)
    /\ client' = "closed"
    /\ ret' = 0
    /\ pc' = "done"
    /\ UNCHANGED <<include, include0, n_result, query_multiplier, pipe,
                   query_exclude, total, ranged, logs, filter, num_query,
                   where, n_results, ids, idx, raised>>

Next == ValidateMode \/ GetCollection \/ EnsureFallback \/ PrepareQuery
        \/ PlanRetrieval \/ IndexQuery \/ Rerank \/ Reconcile \/ Format

Spec == Init /\ [][Next]_vars

\* ---- properties ----
\* the printed result output: everything on stdout but the banner
ResultLines(out) == SelectSeq(out, LAMBDA l : l.type # "banner")
IndexCalls == {"get_collection", "count", "probe_get", "get", "query"}
FirstIndexOf(s, x) == CHOOSE i \in 1..Len(s) : s[i] = x /\ \A j \in 1..(i - 1) : s[j] # x
LoggedAt(i) == {k \in 1..Len(logs) : logs[k].at = i /\ logs[k].level \in {"warning", "error"}}
ResultsAt(i) == {k \in 1..Len(structured_result) : structured_result[k].at = i}
FilterBuilt == pc = "IndexQuery" \/ Has(calls, "embed")

\* C1: when the include list holds both chunk and document, query() returns 1
\* with the client never acquired, no external call made and nothing produced
\* but the one error log.
C1_InvalidModeFailsBeforeIO ==
    (Has(include0, "chunk") /\ Has(include0, "document")) =>
        /\ client = "none"
        /\ calls = <<>>
        /\ stdout = <<>>
        /\ structured_result = <<>>
        /\ raised = "none"
        /\ pc \in {"ValidateMode", "done"}
        /\ pc = "done" => (ret = 1 /\ logs = <<Log("error", "mode", 0)>>)

C1_Witness ==
    /\ pc = "done"
    /\ Has(include0, "chunk") /\ Has(include0, "document")
    /\ ret = 1

\* C2: with a collection of count 0 the identifier list is empty, the
\* embedding function, the index query and the reranker are never invoked,
\* and query() prints an empty result set and returns 0.
C2_EmptyCollection ==
    total = 0 =>
        /\ ~Has(calls, "embed") /\ ~Has(calls, "query") /\ ~Has(calls, "rerank")
        /\ ids = <<>>
        /\ (pc = "done" /\ Has(calls, "count")) =>
              /\ ret = 0
              /\ raised = "none"
              /\ structured_result = <<>>
              /\ ResultLines(stdout) = (IF pipe THEN <<Line("json", <<>>)>> ELSE <<>>)

C2_Witness ==
    /\ pc = "done"
    /\ total = 0
    /\ Has(calls, "count")
    /\ ret = 0

\* C3: whenever the effective include mode contains chunk, the where filter
\* passed to the index query is (path not in excluded) AND (start >= 0) with
\* exclusions, and the single clause start >= 0 without.
C3_ChunkFilterRequiresStart ==
    (Has(calls, "query") /\ Has(include, "chunk")) =>
        where = (IF query_exclude # {}
                 THEN [conj |-> "$and",
                       clauses |-> <<Clause("path", "$nin", query_exclude), StartClause>>]
                 ELSE [conj |-> "single", clauses |-> <<StartClause>>])

\* C4: in a call that gets as far as retrieval, the capability probe has been
\* issued exactly once if chunk was requested and never otherwise, always
\* before the first count of get_query_result_files; with no line-range
\* record the mode becomes [path, document] with a warning, the filter has
\* no start clause and the candidate count follows the document/path rule.
C4_FallbackProbe ==
    /\ Count(calls, "probe_get") <= 1
    /\ ~Has(include0, "chunk") => (~Has(calls, "probe_get") /\ include = include0)
    /\ (Has(calls, "count") \/ pc = "PrepareQuery") =>
          /\ Has(include0, "chunk") => Count(calls, "probe_get") = 1
          /\ (Has(include0, "chunk") /\ Has(calls, "count")) =>
                FirstIndexOf(calls, "probe_get") < FirstIndexOf(calls, "count")
          /\ (Has(include0, "chunk") /\ ranged = 0) =>
                /\ include = <<"path", "document">>
                /\ Count(logs, Log("warning", "fallback", 0)) = 1
          /\ (Has(include0, "chunk") /\ ranged > 0) =>
                /\ include = include0
                /\ ~Has(logs, Log("warning", "fallback", 0))
    /\ (FilterBuilt /\ Has(include0, "chunk") /\ ranged = 0) =>
          /\ \A i \in 1..Len(filter.clauses) :
                filter.clauses[i].key \notin {"start", "$gte"}
          /\ num_query = (IF query_multiplier > 0
                          THEN Min(n_result * query_multiplier, total) ELSE total)

C4_Witness ==
    /\ pc = "done"
    /\ ret = 0
    /\ Has(include0, "chunk")
    /\ ranged = 0
    /\ Has(calls, "query")
    /\ include = <<"path", "document">>

\* C5: the n_results passed to the index query is n_result in chunk mode,
\* min(n_result * query_multiplier, count) otherwise when the multiplier is
\* positive, and count when it is not; outside chunk mode it never exceeds
\* count.
C5_CandidateCount ==
    Has(calls, "query") =>
        /\ Has(include, "chunk") => n_results = n_result
        /\ (~Has(include, "chunk") /\ query_multiplier > 0) =>
              n_results = Min(n_result * query_multiplier, total)
        /\ (~Has(include, "chunk") /\ query_multiplier <= 0) => n_results = total
        /\ ~Has(include, "chunk") => n_results <= total

C5_Witness ==
    /\ Has(calls, "query")
    /\ ~Has(include, "chunk")
    /\ query_multiplier > 0
    /\ n_result * query_multiplier > total
    /\ n_results = total

\* C6: a stale record never fails the whole operation: once the reranker has
\* returned, query() returns 0 and every identifier that is valid has its
\* record in the result.
C6_StaleNeverFails ==
    (pc = "done" /\ Has(calls, "rerank") /\ ret # 1) =>
        /\ ret = 0
        /\ raised = "none"
        /\ \A i \in 1..Len(ids) :
              (IsFile(ids[i])
               \/ (Has(include, "chunk") /\ Meta(ids[i]).present
                   /\ Meta(ids[i]).hasStart /\ Meta(ids[i]).hasEnd
                   /\ IsFile(Meta(ids[i]).path)))
              => ResultsAt(i) # {}

\* C7: result output is printed only on the path that returns 0, after the
\* whole identifier list has been reconciled, and it is the full result set;
\* a call that returns 1 has printed no result.
C7_BinaryOutcome ==
    /\ ret \in {NoReturn, 0, 1}
    /\ ResultLines(stdout) # <<>> =>
          (pc = "done" /\ ret = 0 /\ raised = "none" /\ idx > Len(ids))
    /\ ret = 1 => ResultLines(stdout) = <<>>
    /\ ret = 0 => ResultLines(stdout) = Render(structured_result, pipe)

C7_Witness ==
    /\ pc = "done"
    /\ ret = 1
    /\ Has(calls, "rerank")
    /\ Has(logs, Log("error", "RerankerError", 0))

\* C8: on every exit of query() that acquired the client the client has been
\* released, and every index call lies between acquisition and release.
C8_ClientScoped ==
    /\ (pc = "done" /\ Has(calls, "get_client")) =>
          /\ client = "closed"
          /\ calls[Len(calls)] = "release"
          /\ Count(calls, "release") = 1
    /\ client = "open" <=> pc \notin {"ValidateMode", "done"}
    /\ \A i \in 1..Len(calls) :
          calls[i] \in IndexCalls =>
              /\ \E j \in 1..(i - 1) : calls[j] = "get_client"
              /\ \A k \in 1..(i - 1) : calls[k] # "release"

C8_Witness ==
    /\ pc = "done"
    /\ ret = 1
    /\ client = "closed"
    /\ Has(logs, Log("error", "InvalidDimensionException", 0))

\* C9: every StructuredResult holds only keys of the effective include mode,
\* and building a record never fails on a requested key the branch lacks.
C9_OnlyRequestedKeys ==
    /\ raised # "KeyError"
    /\ \A i \in 1..Len(structured_result) :
          structured_result[i].keys \subseteq Range(include)

\* C10: every identifier the loop has passed either contributed exactly one
\* record, in rerank order, or contributed none and was logged.
C10_NoSilentDrop ==
    /\ \A i \in 1..Min(idx - 1, Len(ids)) :
          \/ Cardinality(ResultsAt(i)) = 1 /\ LoggedAt(i) = {}
          \/ ResultsAt(i) = {} /\ LoggedAt(i) # {}
    /\ \A k \in 1..(Len(structured_result) - 1) :
          structured_result[k].at < structured_result[k + 1].at
====
